---- MODULE Spec2Model ----
(***************************************************************************)
(* Model of hyplan/geometry.py: azimuth wrapping, polygon validation, the  *)
(* UTM transform provider, the rotated-rectangle computations, the         *)
(* azimuth-based polygon buffer and the track processor.                   *)
(*                                                                         *)
(* Every public function is a pure function of its inputs.  The state is   *)
(* one call: the operation, its arguments, and (after the call) what it    *)
(* returned or raised together with the helper calls it made, in order.    *)
(*                                                                         *)
(* Numbers.  Angles are whole degrees.  Planar coordinates are exact       *)
(* rationals: a ring is a sequence of integer pairs together with one      *)
(* common denominator `den`.  One planar unit is one grid step (about one  *)
(* degree, about 100 km), so that a UTM false easting of 500 km is 5.      *)
(* Floating-point rounding is not modelled.                                *)
(***************************************************************************)
EXTENDS Integers, Sequences, FiniteSets, TLC

VARIABLES pc, op, args, result, events

vars == <<pc, op, args, result, events>>

-----------------------------------------------------------------------------
(* Python values *)

None == [type |-> "NoneType"]

Float(v) == [type |-> "float", val |-> v]

Int_(v) == [type |-> "int", val |-> v]

Str == [type |-> "str"]

\* isinstance(v, float)
IsFloat(v) == v.type = "float"

\* values numpy arithmetic accepts as a scalar number
IsNumber(v) == v.type \in {"float", "int"}

\* outcome of a call: a returned value or a raised exception
Return(v) == [kind |-> "return", value |-> v]

Raise(exc, at, msg) == [kind |-> "raise", exc |-> exc, at |-> at, msg |-> msg]

\* raise ValueError(f"<msg>: {e}") in an except clause of function `at`
Reraise(at, msg, e) ==
    [kind |-> "raise", exc |-> "ValueError", at |-> at, msg |-> msg, cause |-> e]

Raised(r) == r.kind = "raise"

\* a Python tuple
Tuple(items) == [type |-> "tuple", items |-> items]

-----------------------------------------------------------------------------
(* wrap_to_180 / wrap_to_360 *)

\* mutant: the shift by 180 is not undone
wrap_to_180_NoShiftBack(lon) == (lon + 180) % 360

\* np.mod(lon + 180.0, 360.0) - 180.0  (np.mod takes the sign of the divisor)
wrap_to_180(lon) == ((lon + 180) % 360) - 180

wrap_to_360(angle) == angle % 360

-----------------------------------------------------------------------------
(* Planar geometry values (shapely): points are <<x, y>> = <<lon, lat>> *)

Polygon(ring) == [type |-> "Polygon", ring |-> ring, den |-> 1]

MultiPolygon == [type |-> "MultiPolygon"]

Point(x, y) == [type |-> "Point", coords |-> <<<<x, y>>>>]

LineString(coords) == [type |-> "LineString", coords |-> coords]

\* the types get_utm_transforms knows as BaseGeometry
IsBaseGeometry(g) == g.type \in {"Point", "LineString", "Polygon", "MultiPolygon"}

\* twice the signed area of the triangle a, b, c (> 0: c is left of a -> b)
Orient(a, b, c) == (b[1] - a[1]) * (c[2] - a[2]) - (b[2] - a[2]) * (c[1] - a[1])

Sign(n) == IF n > 0 THEN 1 ELSE IF n < 0 THEN -1 ELSE 0

Min(a, b) == IF a <= b THEN a ELSE b

Max(a, b) == IF a >= b THEN a ELSE b

SetMin(S) == CHOOSE m \in S : \A n \in S : m <= n

SetMax(S) == CHOOSE m \in S : \A n \in S : m >= n

\* c lies in the bounding box of a and b (used for collinear c)
InBox(a, b, c) ==
    /\ Min(a[1], b[1]) <= c[1] /\ c[1] <= Max(a[1], b[1])
    /\ Min(a[2], b[2]) <= c[2] /\ c[2] <= Max(a[2], b[2])

\* the closed segments a-b and c-d share a point
SegmentsMeet(a, b, c, d) ==
    LET o1 == Sign(Orient(a, b, c))
        o2 == Sign(Orient(a, b, d))
        o3 == Sign(Orient(c, d, a))
        o4 == Sign(Orient(c, d, b))
    IN  \/ (o1 # o2 /\ o3 # o4)
        \/ (o1 = 0 /\ InBox(a, b, c))
        \/ (o2 = 0 /\ InBox(a, b, d))
        \/ (o3 = 0 /\ InBox(c, d, a))
        \/ (o4 = 0 /\ InBox(c, d, b))

\* twice the signed area enclosed by a closed ring (shoelace)
TwiceArea(ring) ==
    LET F[i \in 0..(Len(ring) - 1)] ==
            IF i = 0 THEN 0
            ELSE F[i - 1] + ring[i][1] * ring[i + 1][2] - ring[i + 1][1] * ring[i][2]
    IN  IF Len(ring) = 0 THEN 0 ELSE F[Len(ring) - 1]

\* polygon.is_valid: a closed ring of non-zero area whose edges meet only
\* at shared end points of consecutive edges
is_valid(ring) ==
    LET n == Len(ring) - 1   \* number of edges
        Adjacent(i, j) == j = i + 1 \/ (i = 1 /\ j = n)
    IN  /\ Len(ring) >= 4
        /\ ring[1] = ring[Len(ring)]
        /\ TwiceArea(ring) # 0
        /\ \A i \in 1..n : ring[i] # ring[i + 1]
        /\ \A i \in 1..n : \A j \in (i + 1)..n :
              ~Adjacent(i, j) => ~SegmentsMeet(ring[i], ring[i + 1], ring[j], ring[j + 1])

\* mutant: the emptiness check is missing
ValidatePolygon_NoEmptyCheck(polygon) ==
    IF polygon.type = "NoneType" THEN Return(None)
    ELSE IF polygon.type # "Polygon" THEN
        Raise("ValueError", "_validate_polygon", "not a single Polygon")
    ELSE IF Len(polygon.ring) = 0 THEN Return(TRUE)
    ELSE IF Len(polygon.ring) < 4 THEN
        Raise("ValueError", "_validate_polygon", "insufficient points")
    ELSE IF ~is_valid(polygon.ring) THEN
        Raise("ValueError", "_validate_polygon", "invalid")
    ELSE Return(TRUE)

\* _validate_polygon: None is skipped; everything else must be a single,
\* non-empty, valid Polygon with at least 4 ring coordinates
ValidatePolygon(polygon) ==
    IF polygon.type = "NoneType" THEN Return(None)
    ELSE IF polygon.type # "Polygon" THEN
        Raise("ValueError", "_validate_polygon", "not a single Polygon")
    ELSE IF Len(polygon.ring) = 0 THEN
        Raise("ValueError", "_validate_polygon", "empty")
    ELSE IF Len(polygon.ring) < 4 THEN
        Raise("ValueError", "_validate_polygon", "insufficient points")
    ELSE IF ~is_valid(polygon.ring) THEN
        Raise("ValueError", "_validate_polygon", "invalid")
    ELSE Return(TRUE)

-----------------------------------------------------------------------------
(* Geographic mean, UTM CRS selection and the transform provider *)

Sum(seq) ==
    LET F[i \in 0..Len(seq)] == IF i = 0 THEN 0 ELSE F[i - 1] + seq[i]
    IN  F[Len(seq)]

\* the coordinates a geometry contributes to the mean
MeanCoords(geom) ==
    IF geom.type = "Polygon" THEN geom.ring ELSE geom.coords

\* pymap3d meanm on the grid: the mean position, rounded down to a grid point
meanm(lats, lons) == <<Sum(lats) \div Len(lats), Sum(lons) \div Len(lons)>>

\* calculate_geographic_mean for a single geometry
calculate_geographic_mean(geometry) ==
    IF geometry.type \notin {"LineString", "Polygon", "Point"} THEN
        Raise("TypeError", "calculate_geographic_mean", "not a Shapely geometry")
    ELSE IF Len(MeanCoords(geometry)) = 0 THEN
        Raise("ValueError", "calculate_geographic_mean", "no valid coordinates")
    ELSE
        LET coords == MeanCoords(geometry)
            lats == [i \in 1..Len(coords) |-> coords[i][2]]
            lons == [i \in 1..Len(coords) |-> coords[i][1]]
            m == meanm(lats, lons)
        IN  Return(<<m[2], m[1]>>)      \* Point(lon_mean, lat_mean)

\* the 6-degree UTM zone of a longitude
UtmZone(lon) == (lon + 180) \div 6 + 1

\* pyproj query_utm_crs_info for a one-point area of interest: EPSG codes of
\* the WGS 84 / UTM zones whose area of use (80 S to 84 N) holds the point
query_utm_crs_info(lon, lat) ==
    (IF 0 <= lat /\ lat <= 84 THEN <<32600 + UtmZone(lon)>> ELSE <<>>)
    \o (IF -80 <= lat /\ lat <= 0 THEN <<32700 + UtmZone(lon)>> ELSE <<>>)

\* get_utm_crs: the first matching CRS, or ValueError when there is none
get_utm_crs(lon, lat) ==
    LET utm_crs_list == query_utm_crs_info(lon, lat)
    IN  IF Len(utm_crs_list) = 0 THEN
            Raise("ValueError", "get_utm_crs", "no UTM CRS found")
        ELSE Return(utm_crs_list[1])

\* get_utm_transforms: the CRS both transform functions are bound to
get_utm_transforms(geometry) ==
    IF ~IsBaseGeometry(geometry) THEN
        Raise("TypeError", "get_utm_transforms", "not a Shapely geometry")
    ELSE
        LET centroid == calculate_geographic_mean(geometry)
        IN  IF Raised(centroid) THEN centroid
            ELSE
                LET utm_crs == get_utm_crs(centroid.value[1], centroid.value[2])
                IN  IF Raised(utm_crs) THEN
                        Raise("ValueError", "get_utm_transforms", "failed to determine UTM CRS")
                    ELSE utm_crs

\* origin shift of a UTM CRS, <<easting, northing>> added to a WGS84 position:
\* the zone's central meridian goes to the false easting (500 km = 5 grid
\* steps), the equator to the false northing (10000 km = 100 steps, south only)
UtmShift(code) ==
    LET zone == code % 100
        south == code >= 32700
    IN  <<5 - (6 * zone - 183), IF south THEN 100 ELSE 0>>

\* Transformer.from_crs("EPSG:4326", utm_crs).transform on a point pt / den
wgs84_to_utm(code, pt, den) ==
    <<pt[1] + UtmShift(code)[1] * den, pt[2] + UtmShift(code)[2] * den>>

\* Transformer.from_crs(utm_crs, "EPSG:4326").transform on a point pt / den
utm_to_wgs84(code, pt, den) ==
    <<pt[1] - UtmShift(code)[1] * den, pt[2] - UtmShift(code)[2] * den>>

\* shapely.ops.transform with wgs84_to_utm: every coordinate is mapped
TransformToUtm(code, geom) ==
    IF "cells" \in DOMAIN geom THEN
        [geom EXCEPT !.cells = {wgs84_to_utm(code, c, 1) : c \in geom.cells}]
    ELSE
        [geom EXCEPT !.ring = [i \in 1..Len(geom.ring) |-> wgs84_to_utm(code, geom.ring[i], geom.den)]]

\* shapely.ops.transform with utm_to_wgs84
TransformToWgs84(code, geom) ==
    IF "cells" \in DOMAIN geom THEN
        [geom EXCEPT !.cells = {utm_to_wgs84(code, c, 1) : c \in geom.cells}]
    ELSE
        [geom EXCEPT !.ring = [i \in 1..Len(geom.ring) |-> utm_to_wgs84(code, geom.ring[i], geom.den)]]

-----------------------------------------------------------------------------
(* Convex hull, centroid, rotation and the enclosing rectangles *)

RingPoints(ring) == {ring[i] : i \in 1..Len(ring)}

\* the next hull vertex counter-clockwise from cur: every other point is to
\* the left of cur -> q, or on the segment
HullNext(P, cur) ==
    CHOOSE q \in P \ {cur} :
        \A r \in P \ {cur, q} :
            Orient(cur, q, r) > 0 \/ (Orient(cur, q, r) = 0 /\ InBox(cur, q, r))

RECURSIVE HullWrap(_, _, _, _)
HullWrap(P, start, cur, acc) ==
    LET nxt == HullNext(P, cur)
    IN  IF nxt = start THEN Append(acc, start)
        ELSE HullWrap(P, start, nxt, Append(acc, nxt))

\* geometry.convex_hull of a polygon: the closed ring of its extreme points
convex_hull(geom) ==
    LET P == RingPoints(geom.ring)
        start == CHOOSE p \in P : \A q \in P : p[2] < q[2] \/ (p[2] = q[2] /\ p[1] <= q[1])
    IN  [geom EXCEPT !.ring = HullWrap(P, start, start, <<start>>)]

\* polygon.centroid of a ring with integer vertices, as the rational
\* <<num_x, num_y>> / den  with den = 3 * (twice the area)
Centroid(ring) ==
    LET Cross(i) == ring[i][1] * ring[i + 1][2] - ring[i + 1][1] * ring[i][2]
        FX[i \in 0..(Len(ring) - 1)] ==
            IF i = 0 THEN 0 ELSE FX[i - 1] + (ring[i][1] + ring[i + 1][1]) * Cross(i)
        FY[i \in 0..(Len(ring) - 1)] ==
            IF i = 0 THEN 0 ELSE FY[i - 1] + (ring[i][2] + ring[i + 1][2]) * Cross(i)
    IN  [num |-> <<FX[Len(ring) - 1], FY[Len(ring) - 1]>>, den |-> 3 * TwiceArea(ring)]

\* np.cos and np.sin of a multiple of 45 degrees, both scaled by the same
\* positive factor (1 on the axes, sqrt 2 on the diagonals)
Cos(az) ==
    LET a == az % 360
    IN  IF a \in {0, 45, 315} THEN 1 ELSE IF a \in {135, 180, 225} THEN -1 ELSE 0

Sin(az) ==
    LET a == az % 360
    IN  IF a \in {45, 90, 135} THEN 1 ELSE IF a \in {225, 270, 315} THEN -1 ELSE 0

\* corners of the box [minx, maxx] x [miny, maxy] in the order of the source
BoxRing(minx, miny, maxx, maxy) ==
    << <<minx, miny>>, <<minx, maxy>>, <<maxx, maxy>>, <<maxx, miny>>, <<minx, miny>> >>

\* mutant: the box is rotated back but not moved back to the centroid
RotatedBox_NoRecenter(hull, c, s) ==
    LET ctr == Centroid(hull.ring)
        D == ctr.den
        n == Len(hull.ring)
        xt == [i \in 1..n |-> hull.ring[i][1] * D - ctr.num[1]]
        yt == [i \in 1..n |-> hull.ring[i][2] * D - ctr.num[2]]
        xr == [i \in 1..n |-> xt[i] * c - yt[i] * s]
        yr == [i \in 1..n |-> xt[i] * s + yt[i] * c]
        box == BoxRing(SetMin({xr[i] : i \in 1..n}), SetMin({yr[i] : i \in 1..n}),
                       SetMax({xr[i] : i \in 1..n}), SetMax({yr[i] : i \in 1..n}))
    IN  [type |-> "Polygon",
         ring |-> [k \in 1..5 |-> <<box[k][1] * c + box[k][2] * s,
                                    box[k][2] * c - box[k][1] * s>>],
         den |-> D * (c * c + s * s)]

\* rotated_rectangle, lines 298-317: rotate the hull about its centroid by
\* the angle with cosine c and sine s (scaled by a common factor), take the
\* bounding box, rotate the box back by the opposite angle and re-center
RotatedBox(hull, c, s) ==
    LET ctr == Centroid(hull.ring)
        D == ctr.den
        n == Len(hull.ring)
        xt == [i \in 1..n |-> hull.ring[i][1] * D - ctr.num[1]]
        yt == [i \in 1..n |-> hull.ring[i][2] * D - ctr.num[2]]
        xr == [i \in 1..n |-> xt[i] * c - yt[i] * s]
        yr == [i \in 1..n |-> xt[i] * s + yt[i] * c]
        box == BoxRing(SetMin({xr[i] : i \in 1..n}), SetMin({yr[i] : i \in 1..n}),
                       SetMax({xr[i] : i \in 1..n}), SetMax({yr[i] : i \in 1..n}))
        n2 == c * c + s * s
    IN  [type |-> "Polygon",
         ring |-> [k \in 1..5 |-> <<box[k][1] * c + box[k][2] * s + ctr.num[1] * n2,
                                    box[k][2] * c - box[k][1] * s + ctr.num[2] * n2>>],
         den |-> D * n2]

\* the bounding box of the hull in the frame of the edge direction <<dx, dy>>:
\* its area (times dx^2 + dy^2) and its corners mapped back (times dx^2 + dy^2)
EdgeBox(hull, dx, dy) ==
    LET n == Len(hull.ring)
        xr == [i \in 1..n |-> hull.ring[i][1] * dx + hull.ring[i][2] * dy]
        yr == [i \in 1..n |-> hull.ring[i][2] * dx - hull.ring[i][1] * dy]
        minx == SetMin({xr[i] : i \in 1..n})
        maxx == SetMax({xr[i] : i \in 1..n})
        miny == SetMin({yr[i] : i \in 1..n})
        maxy == SetMax({yr[i] : i \in 1..n})
        box == BoxRing(minx, miny, maxx, maxy)
    IN  [area |-> (maxx - minx) * (maxy - miny),
         n2 |-> dx * dx + dy * dy,
         ring |-> [k \in 1..5 |-> <<box[k][1] * dx - box[k][2] * dy,
                                    box[k][1] * dy + box[k][2] * dx>>]]

\* geometry.minimum_rotated_rectangle of a convex hull (shapely): among the
\* rectangles with a side flush with a hull edge, one of least area
shapely_minimum_rotated_rectangle(hull) ==
    LET n == Len(hull.ring) - 1
        B(i) == EdgeBox(hull, hull.ring[i + 1][1] - hull.ring[i][1],
                              hull.ring[i + 1][2] - hull.ring[i][2])
        best == CHOOSE i \in 1..n : \A j \in 1..n : B(i).area * B(j).n2 <= B(j).area * B(i).n2
    IN  [type |-> "Polygon", ring |-> B(best).ring, den |-> B(best).n2]

-----------------------------------------------------------------------------
(* Regions: the area of a rectilinear polygon as its set of unit grid cells *)
(* (a cell is named by its lower-left corner)                               *)

\* the centre of cell c is inside the ring (even-odd rule, doubled coordinates)
CellInRing(c, ring) ==
    LET px == 2 * c[1] + 1
        py == 2 * c[2] + 1
        Crosses(i) ==
            LET x1 == 2 * ring[i][1]
                y1 == 2 * ring[i][2]
                x2 == 2 * ring[i + 1][1]
                y2 == 2 * ring[i + 1][2]
            IN  /\ (y1 > py) # (y2 > py)
                /\ ((x1 - px) * (y2 - y1) + (py - y1) * (x2 - x1)) * (y2 - y1) > 0
    IN  Cardinality({i \in 1..(Len(ring) - 1) : Crosses(i)}) % 2 = 1

RingCells(ring) ==
    LET xs == {ring[i][1] : i \in 1..Len(ring)}
        ys == {ring[i][2] : i \in 1..Len(ring)}
    IN  IF Len(ring) = 0 THEN {}
        ELSE {c \in (SetMin(xs)..(SetMax(xs) - 1)) \X (SetMin(ys)..(SetMax(ys) - 1)) :
                CellInRing(c, ring)}

GeomCells(geom) == IF "cells" \in DOMAIN geom THEN geom.cells ELSE RingCells(geom.ring)

Neighbours(c) ==
    { <<c[1] + 1, c[2]>>, <<c[1] - 1, c[2]>>, <<c[1], c[2] + 1>>, <<c[1], c[2] - 1>> }

RECURSIVE Reach(_, _)
Reach(cells, seen) ==
    LET more == {c \in cells \ seen : Neighbours(c) \cap seen # {}}
    IN  IF more = {} THEN seen ELSE Reach(cells, seen \cup more)

\* the cells form one piece: they are joined through shared edges
Connected(cells) ==
    cells = {} \/ Reach(cells, {CHOOSE c \in cells : TRUE}) = cells

\* shapely.affinity.translate by whole grid steps
translate(geom, xoff, yoff) ==
    IF "cells" \in DOMAIN geom THEN
        [geom EXCEPT !.cells = {<<c[1] + xoff, c[2] + yoff>> : c \in geom.cells}]
    ELSE
        [geom EXCEPT !.ring = [i \in 1..Len(geom.ring) |->
            <<geom.ring[i][1] + xoff * geom.den, geom.ring[i][2] + yoff * geom.den>>]]

\* translate_polygon: offsets distance * sin(azimuth), distance * cos(azimuth)
\* (azimuth a multiple of 90 degrees, so both are whole)
translate_polygon(polygon, distance, azimuth) ==
    translate(polygon, distance * Sin(azimuth), distance * Cos(azimuth))

\* shapely.ops.unary_union: the merged area; a Polygon when it is one piece,
\* a MultiPolygon otherwise
unary_union(geoms) ==
    LET cells == UNION {GeomCells(geoms[i]) : i \in 1..Len(geoms)}
    IN  [type |-> IF Connected(cells) THEN "Polygon" ELSE "MultiPolygon", cells |-> cells]

\* mutant: the untranslated geometry is left out of the union
BufferStep_NoOriginal(geom, distance, az1, az2) ==
    unary_union(<<translate_polygon(geom, distance, az1),
                  translate_polygon(geom, distance, az2)>>)

\* one translate-and-union step of buffer_polygon_along_azimuth (lines
\* 389-392 and 395-399): two translated copies united with the input
BufferStep(geom, distance, az1, az2) ==
    unary_union(<<translate_polygon(geom, distance, az1),
                  translate_polygon(geom, distance, az2),
                  geom>>)

-----------------------------------------------------------------------------
(* The public operations.  Each yields the outcome of the call and the     *)
(* helper calls it made, in order.                                         *)

Ev(fn) == [fn |-> fn]

Outcome(result_, events_) == [result |-> result_, events |-> events_]

\* minimum_rotated_rectangle(polygon)
minimum_rotated_rectangle(polygon) ==
    LET v == ValidatePolygon(polygon)
        t == get_utm_transforms(polygon)
        at == "minimum_rotated_rectangle"
    IN  IF Raised(v) THEN Outcome(v, <<Ev("_validate_polygon")>>)
        ELSE IF Raised(t) THEN
            Outcome(Reraise(at, "Failed to calculate minimum rotated rectangle", t),
                    <<Ev("_validate_polygon"), Ev("get_utm_transforms")>>)
        ELSE
            LET polygon_utm == convex_hull(TransformToUtm(t.value, polygon))
                mrr == shapely_minimum_rotated_rectangle(polygon_utm)
                mrr_wgs84 == TransformToWgs84(t.value, mrr)
            IN  Outcome(Return(mrr_wgs84),
                        <<Ev("_validate_polygon"), Ev("get_utm_transforms"), Ev("transform"),
                          Ev("convex_hull"), Ev("minimum_rotated_rectangle"), Ev("transform")>>)

\* rotated_rectangle(polygon, azimuth)
rotated_rectangle(polygon, azimuth) ==
    LET v == ValidatePolygon(polygon)
        t == get_utm_transforms(polygon)
        at == "rotated_rectangle"
        msg == "Failed to compute rotated bounding rectangle"
    IN  IF Raised(v) THEN Outcome(v, <<Ev("_validate_polygon")>>)
        ELSE IF Raised(t) THEN
            Outcome(Reraise(at, msg, t), <<Ev("_validate_polygon"), Ev("get_utm_transforms")>>)
        ELSE IF ~IsNumber(azimuth) THEN
            \* np.radians(azimuth) raises TypeError inside the try block
            Outcome(Reraise(at, msg, Raise("TypeError", "np.radians", "not a number")),
                    <<Ev("_validate_polygon"), Ev("get_utm_transforms"), Ev("transform"),
                      Ev("convex_hull"), Ev("np.radians")>>)
        ELSE
            LET polygon_utm == convex_hull(TransformToUtm(t.value, polygon))
                rotated_bbox_utm == RotatedBox(polygon_utm, Cos(azimuth.val), Sin(azimuth.val))
                rotated_bbox_wgs84 == TransformToWgs84(t.value, rotated_bbox_utm)
            IN  Outcome(Return(rotated_bbox_wgs84),
                        <<Ev("_validate_polygon"), Ev("get_utm_transforms"), Ev("transform"),
                          Ev("convex_hull"), Ev("np.radians"), Ev("transform")>>)

\* the distance checks of buffer_polygon_along_azimuth (lines 376-380), in
\* the order of the dictionary: along-track first
CheckDistances(along_track_distance, across_track_distance) ==
    LET Check(value) ==
            IF ~IsFloat(value) THEN
                Raise("ValueError", "buffer_polygon_along_azimuth", "Invalid type")
            ELSE IF value.val <= 0 THEN
                Raise("ValueError", "buffer_polygon_along_azimuth", "Distance must be greater than 0")
            ELSE Return(TRUE)
    IN  IF Raised(Check(along_track_distance)) THEN Check(along_track_distance)
        ELSE Check(across_track_distance)

\* buffer_polygon_along_azimuth(polygon, along_track_distance,
\*                              across_track_distance, azimuth)
buffer_polygon_along_azimuth(polygon, along_track_distance, across_track_distance, azimuth) ==
    LET v == ValidatePolygon(polygon)
        d == CheckDistances(along_track_distance, across_track_distance)
        t == get_utm_transforms(polygon)
        at == "buffer_polygon_along_azimuth"
        msg == "Failed to buffer polygon along azimuth"
    IN  IF Raised(v) THEN Outcome(v, <<Ev("_validate_polygon")>>)
        ELSE IF Raised(d) THEN Outcome(d, <<Ev("_validate_polygon")>>)
        ELSE IF ~IsNumber(azimuth) THEN
            \* wrap_to_180(azimuth) is called before the try block
            Outcome(Raise("TypeError", "wrap_to_180", "not a number"),
                    <<Ev("_validate_polygon"), Ev("wrap_to_180")>>)
        ELSE IF Raised(t) THEN
            Outcome(Reraise(at, msg, t),
                    <<Ev("_validate_polygon"), Ev("wrap_to_180"), Ev("get_utm_transforms")>>)
        ELSE
            LET az == wrap_to_180(azimuth.val)
                polygon_utm == TransformToUtm(t.value, polygon)
                polygon_utm_translated ==
                    BufferStep(polygon_utm, along_track_distance.val, az, az - 180)
                polygon_utm_2 ==
                    BufferStep(polygon_utm_translated, across_track_distance.val, az + 90, az - 90)
                buffered_polygon_wgs84 == TransformToWgs84(t.value, polygon_utm_2)
            IN  Outcome(Return(buffered_polygon_wgs84),
                        <<Ev("_validate_polygon"), Ev("wrap_to_180"), Ev("get_utm_transforms"),
                          Ev("transform"), Ev("translate_polygon"), Ev("translate_polygon"),
                          Ev("unary_union"), Ev("translate_polygon"), Ev("translate_polygon"),
                          Ev("unary_union"), Ev("transform")>>)

-----------------------------------------------------------------------------
(* The track processor *)

\* one call of pymap3d vdist: the arguments and the <<distance, azimuth>> it returned
VdistCall(lat1, lon1, lat2, lon2, ret) ==
    [fn |-> "vdist", args |-> <<lat1, lon1, lat2, lon2>>, dist |-> ret[1], az |-> ret[2]]

\* mutant: the reverse azimuth is stored as vdist returned it
LastAzimuth_NotReversed(reverse_az) == reverse_az

\* line 450: the reverse azimuth of the last segment, turned round
LastAzimuth(reverse_az) == (reverse_az + 180) % 360

\* np.cumsum
cumsum(seq) ==
    LET F[i \in 0..Len(seq)] == IF i = 0 THEN 0 ELSE F[i - 1] + seq[i]
    IN  [i \in 1..Len(seq) |-> F[i]]

\* mutant: the leading 0 is not inserted
AlongTrack_NoLeadingZero(distances) == cumsum(distances)

\* line 456: np.insert(np.cumsum(distances), 0, 0)
AlongTrack(distances) == <<0>> \o cumsum(distances)

\* process_linestring(linestring); vdist_returns[k] is what the k-th call of
\* vdist returns
process_linestring(linestring, vdist_returns) ==
    IF linestring.type # "LineString" THEN
        Outcome(Raise("ValueError", "process_linestring", "Input must be a LineString object"), <<>>)
    ELSE
        LET coordinates == linestring.coords
            n == Len(coordinates)
            track_lat == [i \in 1..n |-> coordinates[i][2]]
            track_lon == [i \in 1..n |-> ((coordinates[i][1] + 180) % 360) - 180]
            forward == [i \in 1..(n - 1) |->
                VdistCall(track_lat[i], track_lon[i], track_lat[i + 1], track_lon[i + 1],
                          vdist_returns[i])]
            reverse == VdistCall(track_lat[n], track_lon[n], track_lat[n - 1], track_lon[n - 1],
                                 vdist_returns[n])
            azimuths == [i \in 1..(n - 1) |-> forward[i].az]
                        \o (IF n > 1 THEN <<LastAzimuth(reverse.az)>> ELSE <<0>>)
            distances == [i \in 1..(n - 1) |-> forward[i].dist]
        IN  Outcome(Return(Tuple(<<track_lat, track_lon, azimuths, AlongTrack(distances)>>)),
                    forward \o (IF n > 1 THEN <<reverse>> ELSE <<>>))

-----------------------------------------------------------------------------
(* Inputs *)

\* largest angle, in degrees, given to wrap_to_180 on its own
MaxAngle == 400

\* largest distance given to the buffer
MaxDist == 2

\* most vertices of a track
MaxLen == 3

\* longest segment vdist reports
MaxSegment == 1

Square == Polygon(<< <<0, 0>>, <<1, 0>>, <<1, 1>>, <<0, 1>>, <<0, 0>> >>)

Rectangle == Polygon(<< <<0, 0>>, <<2, 0>>, <<2, 1>>, <<0, 1>>, <<0, 0>> >>)

LShape == Polygon(<< <<0, 0>>, <<2, 0>>, <<2, 1>>, <<1, 1>>, <<1, 2>>, <<0, 2>>, <<0, 0>> >>)

\* in another zone, south of the equator
SouthSquare == Polygon(<< <<7, -3>>, <<8, -3>>, <<8, -2>>, <<7, -2>>, <<7, -3>> >>)

\* north of every UTM zone
PolarSquare == Polygon(<< <<0, 85>>, <<1, 85>>, <<1, 86>>, <<0, 86>>, <<0, 85>> >>)

EmptyPolygon == Polygon(<< >>)

ShortRing == Polygon(<< <<0, 0>>, <<1, 1>>, <<0, 0>> >>)

Bowtie == Polygon(<< <<0, 0>>, <<2, 2>>, <<2, 0>>, <<0, 2>>, <<0, 0>> >>)

ValidPolygons == {Square, Rectangle, LShape, SouthSquare, PolarSquare}

PolygonInputs ==
    ValidPolygons \cup {EmptyPolygon, ShortRing, Bowtie, MultiPolygon, Point(0, 0), None}

DistanceInputs == {Float(v) : v \in -1..MaxDist} \cup {Int_(1), Int_(0), Str, None}

RectAzimuthInputs == {Float(45 * k) : k \in -4..8} \cup {Int_(45), None}

BufferAzimuthInputs == {Float(90 * k) : k \in -3..5} \cup {Int_(90), None}

TrackPoints == { <<0, 0>>, <<190, 1>> }

Tracks == UNION {[1..n -> TrackPoints] : n \in 1..MaxLen}

LineStringInputs == {LineString(c) : c \in Tracks}

\* what vdist may return: a distance >= 0 and an azimuth in [0, 360)
VdistReturns == (0..MaxSegment) \X {0, 180, 270}

\* one return per call: n calls for a track of n > 1 vertices, none for one vertex
VdistOracles(linestring) ==
    IF linestring.type # "LineString" THEN {<< >>}
    ELSE IF Len(linestring.coords) > 1 THEN [1..Len(linestring.coords) -> VdistReturns]
    ELSE {<< >>}

-----------------------------------------------------------------------------
(* The state machine: a call is made, the operation runs, the caller has   *)
(* the outcome.                                                            *)

\* a call of wrap_to_180 with a whole number of degrees
CallWrapTo180 ==
    \E a \in -MaxAngle..MaxAngle :
        op = "wrap_to_180" /\ args = [lon |-> a]

CallMinimumRotatedRectangle ==
    \E p \in PolygonInputs :
        op = "minimum_rotated_rectangle" /\ args = [polygon |-> p]

CallRotatedRectangle ==
    \E p \in PolygonInputs, a \in RectAzimuthInputs :
        op = "rotated_rectangle" /\ args = [polygon |-> p, azimuth |-> a]

CallBufferPolygonAlongAzimuth ==
    \E p \in PolygonInputs, d1 \in DistanceInputs, d2 \in DistanceInputs,
       a \in BufferAzimuthInputs :
        /\ op = "buffer_polygon_along_azimuth"
        /\ args = [polygon |-> p, along |-> d1, across |-> d2, azimuth |-> a]

CallProcessLinestring ==
    \E l \in LineStringInputs \cup {Square, None} :
        \E o \in VdistOracles(l) :
            op = "process_linestring" /\ args = [linestring |-> l, vdist |-> o]

Init ==
    /\ pc = "call"
    /\ \/ CallWrapTo180
       \/ CallMinimumRotatedRectangle
       \/ CallRotatedRectangle
       \/ CallBufferPolygonAlongAzimuth
       \/ CallProcessLinestring
    /\ result = None
    /\ events = << >>

Finish(outcome) ==
    /\ pc' = "done"
    /\ result' = outcome.result
    /\ events' = outcome.events
    /\ UNCHANGED <<op, args>>

WrapTo180 ==
    /\ pc = "call" /\ op = "wrap_to_180"
    /\ Finish(Outcome(Return(wrap_to_180(args.lon)), << >>))

MinimumRotatedRectangle ==
    /\ pc = "call" /\ op = "minimum_rotated_rectangle"
    /\ Finish(minimum_rotated_rectangle(args.polygon))

RotatedRectangle ==
    /\ pc = "call" /\ op = "rotated_rectangle"
    /\ Finish(rotated_rectangle(args.polygon, args.azimuth))

BufferPolygonAlongAzimuth ==
    /\ pc = "call" /\ op = "buffer_polygon_along_azimuth"
    /\ Finish(buffer_polygon_along_azimuth(args.polygon, args.along, args.across, args.azimuth))

ProcessLinestring ==
    /\ pc = "call" /\ op = "process_linestring"
    /\ Finish(process_linestring(args.linestring, args.vdist))

Next ==
    \/ WrapTo180
    \/ MinimumRotatedRectangle
    \/ RotatedRectangle
    \/ BufferPolygonAlongAzimuth
    \/ ProcessLinestring

Spec == Init /\ [][Next]_vars

-----------------------------------------------------------------------------
(* Claims *)

Done(o) == pc = "done" /\ op = o

Returned(o) == Done(o) /\ result.kind = "return"

\* C1 as stated: wrap_to_180 leaves every azimuth of the closed interval
\* [-180, 180] unchanged, both end points included, and maps 200 to -160
\* and -200 to 160.
C1_WrapNoOpOnClosedInterval ==
    Done("wrap_to_180") =>
        /\ (-180 <= args.lon /\ args.lon <= 180) => result.value = args.lon
        /\ args.lon = 200 => result.value = -160
        /\ args.lon = -200 => result.value = 160

\* C1 amended: wrap_to_180 leaves every azimuth of the half-open interval
\* [-180, 180) unchanged, maps the end point 180 to -180, and maps 200 to
\* -160 and -200 to 160.
C1_WrapNoOpOnHalfOpenInterval ==
    Done("wrap_to_180") =>
        /\ (-180 <= args.lon /\ args.lon < 180) => result.value = args.lon
        /\ args.lon = 180 => result.value = -180
        /\ args.lon = 200 => result.value = -160
        /\ args.lon = -200 => result.value = 160

C1_Witness == Done("wrap_to_180") /\ args.lon = 200 /\ result.value = -160

IsTrack(l) == l.type = "LineString" /\ Len(l.coords) >= 1

\* C2: for a LineString of N >= 1 vertices process_linestring returns four
\* sequences of length N each; the cumulative distance starts at 0 and never
\* decreases; for N = 1 the azimuths are [0.0] and the cumulative distance [0].
C2_TrackLengthsAndCumulative ==
    (Done("process_linestring") /\ IsTrack(args.linestring)) =>
        LET n == Len(args.linestring.coords)
        IN  /\ result.kind = "return"
            /\ result.value.type = "tuple"
            /\ Len(result.value.items) = 4
            /\ \A k \in 1..4 : Len(result.value.items[k]) = n
            /\ result.value.items[4][1] = 0
            /\ \A i \in 1..(n - 1) : result.value.items[4][i + 1] >= result.value.items[4][i]
            /\ n = 1 => (result.value.items[3] = <<0>> /\ result.value.items[4] = <<0>>)

C2_Witness ==
    /\ Returned("process_linestring")
    /\ Len(args.linestring.coords) = 3
    /\ result.value.items[4][3] > result.value.items[4][2]
    /\ result.value.items[4][2] > result.value.items[4][1]

\* the containment of C3: every cell of the input polygon is in the result
CoversInput == GeomCells(args.polygon) \subseteq GeomCells(result.value)

\* C3: whenever buffer_polygon_along_azimuth returns a region (valid
\* polygon, any azimuth, strictly positive distances), the region contains
\* the whole input polygon, so its area is at least the input's area.
C3_BufferContainsOriginal ==
    Returned("buffer_polygon_along_azimuth") =>
        /\ CoversInput
        /\ Cardinality(GeomCells(result.value)) >= Cardinality(GeomCells(args.polygon))

\* the copies are pushed clear of the input and the result is still larger
C3_Witness ==
    /\ Returned("buffer_polygon_along_azimuth")
    /\ args.polygon = Square /\ args.along.val = 2
    /\ CoversInput
    /\ Cardinality(GeomCells(result.value)) > Cardinality(GeomCells(args.polygon))

\* the point pt lies in (or on the edge of) the convex ring with vertices ring / den
InConvexRing(pt, ring, den) ==
    LET O(i) == Orient(ring[i], ring[i + 1], <<pt[1] * den, pt[2] * den>>)
    IN  \/ \A i \in 1..(Len(ring) - 1) : O(i) >= 0
        \/ \A i \in 1..(Len(ring) - 1) : O(i) <= 0

HullInside ==
    \A v \in RingPoints(convex_hull(args.polygon).ring) :
        InConvexRing(v, result.value.ring, result.value.den)

\* C4: the rectangle returned by rotated_rectangle, for any azimuth, and the
\* rectangle returned by minimum_rotated_rectangle each contain every vertex
\* of the convex hull of the input polygon.
C4_RectanglesContainHull ==
    /\ Returned("rotated_rectangle") => HullInside
    /\ Returned("minimum_rotated_rectangle") => HullInside

C4_Witness ==
    /\ Returned("rotated_rectangle")
    /\ args.polygon = LShape /\ args.azimuth = Float(45)
    /\ Len(result.value.ring) = 5
    /\ HullInside

\* the distance check rejected the call
DistanceRejected ==
    /\ Raised(result)
    /\ result.at = "buffer_polygon_along_azimuth"
    /\ result.msg \in {"Invalid type", "Distance must be greater than 0"}

NumericPositive(d) == IsNumber(d) /\ d.val > 0

\* C5 as stated: for a valid polygon and a numeric azimuth,
\* buffer_polygon_along_azimuth accepts the two distances exactly when each is
\* numeric (integer or floating point) and strictly positive.
C5_DistancesAcceptedIffNumericPositive ==
    (/\ Done("buffer_polygon_along_azimuth")
     /\ args.polygon \in ValidPolygons
     /\ IsNumber(args.azimuth)) =>
        (~DistanceRejected <=> (NumericPositive(args.along) /\ NumericPositive(args.across)))

PolygonOps == {"minimum_rotated_rectangle", "rotated_rectangle", "buffer_polygon_along_azimuth"}

\* the call ended in the validation step: nothing but _validate_polygon ran
RejectedAtEntry ==
    /\ Raised(result)
    /\ result.exc = "ValueError"
    /\ result.at = "_validate_polygon" \/ DistanceRejected
    /\ events = <<Ev("_validate_polygon")>>

BadDistances ==
    op = "buffer_polygon_along_azimuth"
        /\ ~(NumericPositive(args.along) /\ NumericPositive(args.across))

\* C6 as stated: every input that fails validation (wrong geometry type,
\* missing/None or empty polygon, too few ring vertices, invalid ring, bad
\* distance) is rejected by the validation step itself, before the transform
\* provider or any geometric or geodesic computation is invoked.
C6_InvalidInputRejectedAtEntry ==
    /\ (pc = "done" /\ op \in PolygonOps /\ (args.polygon \notin ValidPolygons \/ BadDistances))
            => RejectedAtEntry
    /\ (Done("process_linestring") /\ args.linestring.type # "LineString")
            => (Raised(result) /\ result.exc = "ValueError" /\ events = << >>)

\* a distance the checks of lines 377-380 refuse: not a float, or <= 0
NotPositiveFloats ==
    op = "buffer_polygon_along_azimuth"
        /\ ~(/\ IsFloat(args.along) /\ args.along.val > 0
             /\ IsFloat(args.across) /\ args.across.val > 0)

\* C6 amended: every input other than a None polygon that fails validation
\* (a geometry that is not a Polygon, an empty polygon, too few ring
\* vertices, an invalid ring, a distance that is not a float or is <= 0) is
\* rejected by the validation step itself, before the transform provider or
\* any geometric or geodesic computation is invoked; a None polygon is never
\* rejected by polygon validation, and in minimum_rotated_rectangle and
\* rotated_rectangle it is rejected only by the transform provider, inside
\* the pipeline.
C6_NonNoneInvalidInputRejectedAtEntry ==
    /\ (pc = "done" /\ op \in PolygonOps
            /\ ((args.polygon # None /\ args.polygon \notin ValidPolygons) \/ NotPositiveFloats))
            => RejectedAtEntry
    /\ (pc = "done" /\ op \in PolygonOps /\ args.polygon = None)
            => (Raised(result) /\ result.at # "_validate_polygon")
    /\ (pc = "done" /\ op \in {"minimum_rotated_rectangle", "rotated_rectangle"}
            /\ args.polygon = None)
            => (/\ events = <<Ev("_validate_polygon"), Ev("get_utm_transforms")>>
                /\ result.exc = "ValueError"
                /\ result.cause.at = "get_utm_transforms")
    /\ (Done("process_linestring") /\ args.linestring.type # "LineString")
            => (Raised(result) /\ result.exc = "ValueError" /\ events = << >>)

C6_Witness ==
    /\ Done("buffer_polygon_along_azimuth")
    /\ args.polygon = Bowtie
    /\ NumericPositive(args.along) /\ NumericPositive(args.across)
    /\ RejectedAtEntry

\* C7 as stated: on success minimum_rotated_rectangle returns seven
\* elements: centroid latitude and longitude, azimuth, length, width, the
\* rectangle and the convex hull.
C7_MinimumRectangleReturnsSevenElements ==
    Returned("minimum_rotated_rectangle") =>
        (result.value.type = "tuple" /\ Len(result.value.items) = 7)

\* C8 as stated: whatever the valid polygon, the azimuth and the strictly
\* positive distances, buffer_polygon_along_azimuth returns a single Polygon,
\* one connected region, never a multi-part geometry.
C8_BufferReturnsSinglePolygon ==
    Returned("buffer_polygon_along_azimuth") => result.value.type = "Polygon"

FailureMessages ==
    [minimum_rotated_rectangle |-> "Failed to calculate minimum rotated rectangle",
     rotated_rectangle |-> "Failed to compute rotated bounding rectangle",
     buffer_polygon_along_azimuth |-> "Failed to buffer polygon along azimuth"]

\* C9 as stated: in the three polygon operations every failure after
\* validation reaches the caller as a ValueError naming the operation; no
\* other exception type escapes.
C9_LateFailuresAreValueErrors ==
    (pc = "done" /\ op \in PolygonOps /\ Raised(result) /\ ~RejectedAtEntry) =>
        /\ result.exc = "ValueError"
        /\ result.at = op
        /\ result.msg = FailureMessages[op]

\* the longitude wrap of the track processor
TrackLon(lon) == ((lon + 180) % 360) - 180

\* C10: for a LineString of N >= 2 vertices the last azimuth is the azimuth
\* vdist gives from the last vertex to the second-to-last one, plus 180,
\* modulo 360, so it lies in [0, 360); entries 1..N-1 are the forward
\* azimuths of the consecutive segments, in order.
C10_LastAzimuthIsReversedReverse ==
    (Done("process_linestring") /\ IsTrack(args.linestring) /\ Len(args.linestring.coords) >= 2) =>
        LET c == args.linestring.coords
            n == Len(c)
            az == result.value.items[3]
            FromTo(i, j) == <<c[i][2], TrackLon(c[i][1]), c[j][2], TrackLon(c[j][1])>>
        IN  /\ Len(events) = n
            /\ events[n].args = FromTo(n, n - 1)
            /\ az[n] = (events[n].az + 180) % 360
            /\ 0 <= az[n] /\ az[n] < 360
            /\ \A i \in 1..(n - 1) : events[i].args = FromTo(i, i + 1) /\ az[i] = events[i].az

\* a reverse azimuth of 270 becomes 90: the sum passes 360
C10_Witness ==
    /\ Returned("process_linestring")
    /\ Len(args.linestring.coords) = 3
    /\ events[3].az = 270
    /\ result.value.items[3][3] = 90

====
